---- MODULE Spec2Model ----
(***************************************************************************)
(* Model of the two programs of the repository:                            *)
(*   - setup_project_structure.py: main() materialises the project tree    *)
(*     described by the ordered table `structure` under ROOT;              *)
(*   - src/database_connection.py: the DatabaseConnection helper.          *)
(* Paths are sequences of path components relative to the current working  *)
(* directory's project folder: ROOT is <<>> and ROOT / "data/raw" is       *)
(* <<"data", "raw">>.  File contents are the bytes on disk, written as     *)
(* strings; text mode is the POSIX one (no newline translation), and the   *)
(* contents are ASCII, so encoding a str gives the same characters.        *)
(***************************************************************************)
EXTENDS Integers, Sequences, FiniteSets, TLC

\* Bounds of the exploration.
MaxRuns == 2        \* runs of the script (process starts)
MaxEvents == 1      \* what the environment does to the runs: filesystem
                    \* calls that raise, external changes between two runs
MaxCalls == 4       \* calls made to one DatabaseConnection object
MaxRows == 1        \* rows of a DataFrame handed to load_dataframe_to_db

VARIABLES
  dirs,        \* the directories that exist (ROOT is <<>>)
  files,       \* the files that exist: path -> content
  pc,          \* where the script is: idle, loop, raw_csv, processed_csv,
               \* init_py, finish, exited
  i,           \* loop: index of the structure entry being processed
  j,           \* loop: 0 at the entry itself, k at its k-th file
  out,         \* what the run printed
  exit,        \* the exit status of the last run (-1: none yet)
  log,         \* the filesystem calls of the current run, in order
  runs,        \* runs started
  events,      \* faults raised and external changes made so far
  startEmpty,  \* the current run started with no ROOT
  startFiles,  \* files as they were when the current run started
  engine,      \* DatabaseConnection.engine
  tables,      \* the database: table name -> number of rows
  attempts,    \* calls of create_connection so far
  calls,       \* method calls made by the caller so far
  last         \* the last method call: what it was given, returned, printed

fsvars == <<dirs, files, pc, i, j, out, exit, log, runs, events,
            startEmpty, startFiles>>
dbvars == <<engine, tables, attempts, calls, last>>
vars == <<dirs, files, pc, i, j, out, exit, log, runs, events,
          startEmpty, startFiles, engine, tables, attempts, calls, last>>

(***************************************************************************)
(* setup_project_structure.py: the static tables.                          *)
(***************************************************************************)
None == [type |-> "none", data |-> ""]
Str(s) == [type |-> "str", data |-> s]
Bytes(s) == [type |-> "bytes", data |-> s]

structure ==
  <<
  [path |-> <<"data", "raw">>, isdict |-> TRUE, value |-> None,
   files |-> <<[name |-> "customer_shopping_behavior.csv", content |-> None]>>],
  [path |-> <<"data", "processed">>, isdict |-> TRUE, value |-> None,
   files |-> <<[name |-> "customer_cleaned.csv", content |-> None]>>],
  [path |-> <<"notebooks">>, isdict |-> TRUE, value |-> None,
   files |-> <<[name |-> "01_data_cleaning_and_eda.ipynb", content |-> Str("notebook")],
        [name |-> "02_advanced_analytics.ipynb", content |-> Str("notebook")],
        [name |-> "03_predictive_modeling.ipynb", content |-> Str("notebook")],
        [name |-> "04_statistical_analysis.ipynb", content |-> Str("notebook")]>>],
  [path |-> <<"sql">>, isdict |-> TRUE, value |-> None,
   files |-> <<[name |-> "01_schema_creation.sql", content |-> Str("-- SQL: schema creation\n-- Add CREATE TABLE statements here\n")],
        [name |-> "02_basic_queries.sql", content |-> Str("-- Basic queries for EDA and reporting\n")],
        [name |-> "03_advanced_business_queries.sql", content |-> Str("-- Joins, window functions, cohort analysis queries\n")],
        [name |-> "04_insights_queries.sql", content |-> Str("-- Business insights queries\n")]>>],
  [path |-> <<"powerbi", "screenshots">>, isdict |-> TRUE, value |-> None, files |-> <<>>],
  [path |-> <<"powerbi", "customer_behavior_dashboard.pbix">>, isdict |-> FALSE, value |-> Bytes("%PDF-1.4\n%placeholder pbix-like file\n"), files |-> <<>>],
  [path |-> <<"reports">>, isdict |-> TRUE, value |-> None,
   files |-> <<[name |-> "technical_report.md", content |-> Str("# Technical report\n\nDescribe methods, data pipeline, models, and results.\n")],
        [name |-> "executive_summary.md", content |-> Str("# Executive summary\n\nHigh level summary for business stakeholders.\n")],
        [name |-> "presentation.pdf", content |-> Bytes("%PDF-1.4\n%placeholder PDF presentation\n")]>>],
  [path |-> <<"src">>, isdict |-> TRUE, value |-> None,
   files |-> <<[name |-> "__init__.py", content |-> Str("# src package\n")],
        [name |-> "config.py", content |-> Str("# Configuration variables\nDB_PATH = 'data/processed/customer_cleaned.db'\n")],
        [name |-> "database_connection.py", content |-> Str("# Simple sqlite database connection helper\nimport sqlite3\nfrom pathlib import Path\n\nDB_FILE = Path(__file__).resolve().parents[1] / 'data' / 'processed' / 'customer_cleaned.db'\n\ndef get_connection(db_path: str = None):\n    \"\"\"Return a sqlite3 connection. If db_path is None, a file in data/processed will be used.\"\"\"\n    path = DB_FILE if db_path is None else Path(db_path)\n    path.parent.mkdir(parents=True, exist_ok=True)\n    conn = sqlite3.connect(str(path))\n    return conn\n")]>>],
  [path |-> <<".gitignore">>, isdict |-> FALSE, value |-> Str("# Python artifacts\n__pycache__/\n*.pyc\n*.pyo\n*.pyd\nenv/\n.venv/\nvenv/\n.Python\n# Jupyter\n.ipynb_checkpoints/\n# Data and outputs\ndata/raw/*\n!data/raw/customer_shopping_behavior.csv\ndata/processed/*\n# VSCode\n.vscode/\n"), files |-> <<>>],
  [path |-> <<"requirements.txt">>, isdict |-> FALSE, value |-> Str("pandas\nnumpy\nscikit-learn\nmatplotlib\nnotebook\n"), files |-> <<>>],
  [path |-> <<"README.md">>, isdict |-> FALSE, value |-> Str("# customer-shopping-analytics\n\nProject skeleton for customer shopping analytics.\n\n## Structure\nSee folders for data, notebooks, SQL, reports and src.\n"), files |-> <<>>]
  >>

\* json.dumps(nb_skeleton, indent=2)
nb_skeleton_json ==
  "{\n  \"nbformat\": 4,\n  \"nbformat_minor\": 5,\n  \"metadata\": {},\n  \"cells\": [\n    {\n      \"cell_type\": \"markdown\",\n      \"metadata\": {},\n      \"source\": [\n        \"# Notebook\\n\\nThis is a generated notebook skeleton. Replace with your content.\"\n      ]\n    }\n  ]\n}"

\* mutant: the header of the other file
raw_csv_header_swapped ==
  "customer_id,visit_date,product_id,category,quantity,price,total_spent,cleaned_flag\n"

raw_csv_header ==
  "customer_id,visit_date,product_id,category,quantity,price,total_spent\n"

cleaned_csv_header ==
  "customer_id,visit_date,product_id,category,quantity,price,total_spent,cleaned_flag\n"

(***************************************************************************)
(* The filesystem calls main() and create_file() make.  A call works on a  *)
(* record s = [dirs, files, log, raised] and gives the record after it;    *)
(* `fault` says that this call raises OSError (permission denied, disk     *)
(* full), on top of the errors the state of the tree itself produces.      *)
(***************************************************************************)
ROOT == <<>>

Parent(p) == SubSeq(p, 1, Len(p) - 1)

\* p and all its ancestors, up to ROOT
Ancestors(p) == {SubSeq(p, 1, k) : k \in 0..Len(p)}

FS(d, f, l, r) == [dirs |-> d, files |-> f, log |-> l, raised |-> r]

\* the (path, content) pairs of the k-th entry of structure
FilesOf(k) ==
  IF structure[k].isdict
    THEN {[path |-> ROOT \o structure[k].path \o <<structure[k].files[m].name>>,
           content |-> structure[k].files[m].content] :
          m \in 1..Len(structure[k].files)}
  ELSE {[path |-> ROOT \o structure[k].path, content |-> structure[k].value]}

\* the entry of structure a path is declared by: its key, or a file of its
\* mapping; 0 for any other path (ROOT, "data", "powerbi")
EntryOf(p) ==
  LET S == {k \in 1..Len(structure) :
              p = ROOT \o structure[k].path \/ \E f \in FilesOf(k) : f.path = p}
  IN  IF S = {} THEN 0 ELSE CHOOSE k \in S : TRUE

\* one filesystem call in the log of the run: the call, its path, whether it
\* raised, the statement of main() that made it, the entry its path belongs
\* to, and whether the path's parent directory existed when it was made
Call(s, name, p, r) ==
  Append(s.log, [op |-> name, path |-> p, raised |-> r, phase |-> pc,
                 entry |-> EntryOf(p),
                 parentOk |-> (p = ROOT \/ Parent(p) \in s.dirs)])

Put(f, p, data) == [q \in DOMAIN f \cup {p} |-> IF q = p THEN data ELSE f[q]]

\* mutant: the directory is not made
mkdir_skipped(s, p, fault) == FS(s.dirs, s.files, Call(s, "mkdir", p, fault), fault)

\* Path.mkdir(parents=True, exist_ok=True)
mkdir(s, p, fault) ==
  LET r == fault \/ \E q \in Ancestors(p) : q \in DOMAIN s.files
  IN  FS(IF r THEN s.dirs ELSE s.dirs \cup Ancestors(p), s.files,
         Call(s, "mkdir", p, r), r)

\* Path.touch(): creates an empty file, leaves an existing one as it is
touch(s, p, fault) ==
  LET there == p \in DOMAIN s.files \/ p \in s.dirs
      r == fault \/ (~there /\ Parent(p) \notin s.dirs)
  IN  FS(s.dirs, IF r \/ there THEN s.files ELSE Put(s.files, p, ""),
         Call(s, "touch", p, r), r)

\* open(path, "w") and open(path, "wb"): creates or truncates
open_w(s, p, fault) ==
  LET r == fault \/ p \in s.dirs \/ Parent(p) \notin s.dirs
  IN  FS(s.dirs, IF r THEN s.files ELSE Put(s.files, p, ""),
         Call(s, "open", p, r), r)

\* f.write(data) on the file just opened
write(s, p, data, fault) ==
  FS(s.dirs, IF fault THEN s.files ELSE Put(s.files, p, data),
     Call(s, "write", p, fault), fault)

\* Path.exists(): a read, it does not raise
exists(s, p) == FS(s.dirs, s.files, Call(s, "exists", p, FALSE), FALSE)

Exists(s, p) == p \in DOMAIN s.files \/ p \in s.dirs

\* Path.stat(): a read
stat(s, p, fault) ==
  LET r == fault \/ ~Exists(s, p)
  IN  FS(s.dirs, s.files, Call(s, "stat", p, r), r)

\* mutant: the size is not looked at
SizeIsZero_unchecked(s, p) == TRUE

\* stat().st_size == 0 (a directory has a size of its own, not 0)
SizeIsZero(s, p) == p \in DOMAIN s.files /\ s.files[p] = ""

\* what f.write() is given: create_file, lines 143-149
WrittenData(content, binary) ==
  IF binary /\ content.type = "none" THEN "None" ELSE content.data

\* f.write(content) in text mode raises TypeError unless content is a str
WriteTypeError(content, binary) == ~binary /\ content.type # "str"

\* mutant: an existing file is kept as it is
create_file_if_missing(s, path, content, binary, fault) ==
  LET s1 == mkdir(s, Parent(path), fault = 1) IN
  IF s1.raised \/ path \in DOMAIN s1.files THEN s1 ELSE
  LET s2 == open_w(s1, path, fault = 2) IN
  IF s2.raised THEN s2 ELSE
  write(s2, path, WrittenData(content, binary),
        fault = 3 \/ WriteTypeError(content, binary))

\* create_file(path, content, binary); fault k: its k-th call raises
create_file(s, path, content, binary, fault) ==
  LET s1 == mkdir(s, Parent(path), fault = 1) IN
  IF s1.raised THEN s1 ELSE
  LET s2 == open_w(s1, path, fault = 2) IN
  IF s2.raised THEN s2 ELSE
  write(s2, path, WrittenData(content, binary),
        fault = 3 \/ WriteTypeError(content, binary))

\* Path.write_text(data): open, write
write_text(s, p, data, fault) ==
  LET s1 == open_w(s, p, fault = 1) IN
  IF s1.raised THEN s1 ELSE write(s1, p, data, fault = 2)

\* later faults of a step, once its first call is behind
Rest(fault) == IF fault = 0 THEN 0 ELSE fault - 1

(***************************************************************************)
(* main(), one action per statement of its body.                           *)
(***************************************************************************)
Cur == FS(dirs, files, log, FALSE)

\* mutant: the table is walked in another order than it is declared in
Entry_unordered == structure[Len(structure) + 1 - i]

Entry == structure[i]

Target == ROOT \o Entry.path

\* the position after (i, j) in the two nested for loops
NextPc == IF i = Len(structure) /\ j = Len(Entry.files) THEN "raw_csv" ELSE "loop"
NextI == IF j = Len(Entry.files) /\ i < Len(structure) THEN i + 1 ELSE i
NextJ == IF j = Len(Entry.files) THEN 0 ELSE j + 1

\* mutant: the exception is swallowed where it is raised
Propagates_swallowed(s) == FALSE

\* an exception leaves main() and reaches the handler of lines 195-197
Propagates(s) == s.raised

\* the outcome of a statement: the tree after it, and either the next
\* statement or, on an exception, the handler: message and sys.exit(1)
Step(s, npc, ni, nj) ==
  /\ dirs' = s.dirs
  /\ files' = s.files
  /\ log' = s.log
  /\ events' = events + (IF s.raised THEN 1 ELSE 0)
  /\ IF Propagates(s)
       THEN /\ pc' = "exited"
            /\ exit' = 1
            /\ out' = Append(out, "Error while creating project:")
            /\ UNCHANGED <<i, j>>
       ELSE /\ pc' = npc
            /\ i' = ni
            /\ j' = nj
            /\ UNCHANGED <<exit, out>>
  /\ UNCHANGED <<runs, startEmpty, startFiles>>
  /\ UNCHANGED dbvars

MayFault(fault) == fault = 0 \/ events < MaxEvents

\* a process starts: line 153
Start ==
  /\ pc \in {"idle", "exited"}
  /\ runs < MaxRuns
  /\ pc' = "loop"
  /\ i' = 1
  /\ j' = 0
  /\ out' = <<"Creating project skeleton at: ROOT">>
  /\ exit' = -1
  /\ log' = <<>>
  /\ runs' = runs + 1
  /\ startEmpty' = (dirs = {} /\ DOMAIN files = {})
  /\ startFiles' = files
  /\ UNCHANGED <<dirs, files, events>>
  /\ UNCHANGED dbvars

\* lines 156-157: the entry is a mapping, its directory is made
DirEntry ==
  /\ pc = "loop" /\ Entry.isdict /\ j = 0
  /\ \E fault \in 0..1 :
       /\ MayFault(fault)
       /\ Step(mkdir(Cur, Target, fault = 1), NextPc, NextI, NextJ)

\* lines 158-167: one file of a directory entry
FileStep(s, file_path, fcontent, fault) ==
  IF fcontent = None THEN touch(s, file_path, fault = 1)
  ELSE IF fcontent = Str("notebook")
    THEN write_text(s, file_path, nb_skeleton_json, fault)
  ELSE IF fcontent.type = "bytes"
    THEN create_file(s, file_path, fcontent, TRUE, fault)
  ELSE create_file(s, file_path, fcontent, FALSE, fault)

DirFile ==
  /\ pc = "loop" /\ Entry.isdict /\ j > 0
  /\ \E fault \in 0..3 :
       /\ MayFault(fault)
       /\ Step(FileStep(Cur, Target \o <<Entry.files[j].name>>,
                        Entry.files[j].content, fault),
               NextPc, NextI, NextJ)

\* lines 168-173: the entry is a file of its own
DirectStep(s, target, value, fault) ==
  IF value.type = "bytes" THEN create_file(s, target, value, TRUE, fault)
  ELSE LET s1 == mkdir(s, Parent(target), fault = 1) IN
       IF s1.raised THEN s1
       ELSE create_file(s1, target, value, FALSE, Rest(fault))

FileEntry ==
  /\ pc = "loop" /\ ~Entry.isdict
  /\ \E fault \in 0..4 :
       /\ MayFault(fault)
       /\ Step(DirectStep(Cur, Target, Entry.value, fault), NextPc, NextI, NextJ)

raw_csv == ROOT \o <<"data", "raw", "customer_shopping_behavior.csv">>
processed_csv == ROOT \o <<"data", "processed", "customer_cleaned.csv">>
init_py == ROOT \o <<"src", "__init__.py">>
README == ROOT \o <<"README.md">>

\* lines 178-181: if not p.exists() or p.stat().st_size == 0: create_file
HeaderStep(s, p, header, fault) ==
  LET s1 == exists(s, p) IN
  IF ~Exists(s1, p) THEN create_file(s1, p, Str(header), FALSE, fault)
  ELSE LET s2 == stat(s1, p, fault = 1) IN
       IF s2.raised THEN s2
       ELSE IF SizeIsZero(s2, p)
         THEN create_file(s2, p, Str(header), FALSE, Rest(fault))
       ELSE s2

RawHeader ==
  /\ pc = "raw_csv"
  /\ \E fault \in 0..4 :
       /\ MayFault(fault)
       /\ Step(HeaderStep(Cur, raw_csv, raw_csv_header, fault), "processed_csv", i, j)

ProcessedHeader ==
  /\ pc = "processed_csv"
  /\ \E fault \in 0..4 :
       /\ MayFault(fault)
       /\ Step(HeaderStep(Cur, processed_csv, cleaned_csv_header, fault),
               "init_py", i, j)

\* lines 184-186
InitStep(s, fault) ==
  LET s1 == exists(s, init_py) IN
  IF ~Exists(s1, init_py)
    THEN create_file(s1, init_py, Str("# src package\n"), FALSE, fault)
  ELSE s1

EnsureInit ==
  /\ pc = "init_py"
  /\ \E fault \in 0..3 :
       /\ MayFault(fault)
       /\ Step(InitStep(Cur, fault), "finish", i, j)

\* lines 188-189, and the process ends with status 0
Finish ==
  /\ pc = "finish"
  /\ pc' = "exited"
  /\ exit' = 0
  /\ out' = out \o <<"Project skeleton created successfully!",
                     "Open 'ROOT' in VS Code to start working on your project.">>
  /\ UNCHANGED <<dirs, files, i, j, log, runs, events, startEmpty, startFiles>>
  /\ UNCHANGED dbvars

\* Between two runs somebody changes a file of the tree: new content, or
\* the file is removed.
UserContents == {"", "user data\n"}

ExternalWrite ==
  /\ pc \in {"idle", "exited"}
  /\ events < MaxEvents
  /\ \E p \in DOMAIN files : \E c \in UserContents :
       /\ c # files[p]
       /\ files' = [files EXCEPT ![p] = c]
  /\ pc' = "idle"
  /\ events' = events + 1
  /\ UNCHANGED <<dirs, i, j, out, exit, log, runs, startEmpty, startFiles>>
  /\ UNCHANGED dbvars

ExternalRemove ==
  /\ pc \in {"idle", "exited"}
  /\ events < MaxEvents
  /\ \E p \in DOMAIN files :
       files' = [q \in DOMAIN files \ {p} |-> files[q]]
  /\ pc' = "idle"
  /\ events' = events + 1
  /\ UNCHANGED <<dirs, i, j, out, exit, log, runs, startEmpty, startFiles>>
  /\ UNCHANGED dbvars

InitFS ==
  /\ dirs = {}
  /\ files = <<>>
  /\ pc = "idle"
  /\ i = 1
  /\ j = 0
  /\ out = <<>>
  /\ exit = -1
  /\ log = <<>>
  /\ runs = 0
  /\ events = 0
  /\ startEmpty = FALSE
  /\ startFiles = <<>>

NextFS ==
  \/ Start
  \/ DirEntry
  \/ DirFile
  \/ FileEntry
  \/ RawHeader
  \/ ProcessedHeader
  \/ EnsureInit
  \/ Finish
  \/ ExternalWrite
  \/ ExternalRemove

(***************************************************************************)
(* src/database_connection.py: class DatabaseConnection.  The caller makes *)
(* method calls one after the other; each action is one call, from entry   *)
(* to return (or to the exception that leaves it).  The library calls      *)
(* (quote_plus, create_engine, DataFrame.to_sql, pd.read_sql,              *)
(* Engine.dispose) succeed or raise, by the state of the database and by   *)
(* the fault the action draws.  The database is the tables it holds.       *)
(***************************************************************************)
\* self.engine = None (line 25); an engine is the object create_engine gave
NoEngine == [id |-> 0, disposed |-> FALSE]

RetNone == [type |-> "None", rows |-> 0, id |-> 0]
RetEngine(e) == [type |-> "Engine", rows |-> 0, id |-> e.id]
RetFrame(n) == [type |-> "DataFrame", rows |-> n, id |-> 0]

Msg(t) == [text |-> t, n |-> 0]

TableNames == {"customers"}
IfExists == {"replace", "append", "fail"}
Queries == [malformed : BOOLEAN, table : TableNames]
ConnFails == {"none", "quote_plus", "create_engine"}

\* create_connection, lines 27-41; n: the calls of it made before, which
\* numbers the engine objects
create_connection(e, n, fail) ==
  IF fail = "quote_plus"
    THEN [engine |-> e, ret |-> RetNone,
          printed |-> <<Msg("Error connecting to database:")>>]
  ELSE IF fail = "create_engine"
    THEN [engine |-> e, ret |-> RetNone,
          printed |-> <<Msg("Connection string preview:"),
                        Msg("Error connecting to database:")>>]
  ELSE LET new == [id |-> n + 1, disposed |-> FALSE]
       IN  [engine |-> new, ret |-> RetEngine(new),
            printed |-> <<Msg("Connection string preview:"),
                          Msg("Connected to MySQL database:")>>]

\* mutant: a connection is made on every call
EngineIsNone_always(e) == TRUE

\* lines 45 and 57: if self.engine is None
EngineIsNone(e) == e = NoEngine

\* lines 45-46 and 57-58: the connection made on demand
Lazy(e, n, fail) ==
  IF EngineIsNone(e)
    THEN LET c == create_connection(e, n, fail)
         IN  [engine |-> c.engine, printed |-> c.printed, made |-> 1]
  ELSE [engine |-> e, printed |-> <<>>, made |-> 0]

\* df.to_sql(table_name, self.engine, if_exists=if_exists, index=False)
ToSqlOk(e, tbls, name, mode, fault) ==
  /\ e # NoEngine
  /\ ~fault
  /\ ~(mode = "fail" /\ name \in DOMAIN tbls)

ToSql(tbls, name, n, mode) ==
  [t \in DOMAIN tbls \cup {name} |->
     IF t # name THEN tbls[t]
     ELSE IF mode = "append" /\ name \in DOMAIN tbls THEN tbls[t] + n
     ELSE n]

\* mutant: nothing is reported for an empty DataFrame
LoadPrinted_nonempty(n) ==
  IF n = 0 THEN <<>>
  ELSE <<Msg("Data loaded to table successfully!"), [text |-> "Rows loaded:", n |-> n]>>

\* lines 50-51: what a load that worked prints
LoadPrinted(n) ==
  <<Msg("Data loaded to table successfully!"), [text |-> "Rows loaded:", n |-> n]>>

\* pd.read_sql(query, self.engine)
ReadSqlOk(e, tbls, query, fault) ==
  /\ e # NoEngine
  /\ ~fault
  /\ ~query.malformed
  /\ query.table \in DOMAIN tbls

\* mutant: None is returned
QueryErrorReturn_none == RetNone

\* line 65
QueryErrorReturn == RetFrame(0)

\* line 69: if self.engine
EngineIsTrue(e) == e # NoEngine

Called(method, rows, query, before, ret, raised, printed, libOk) ==
  [method |-> method, rows |-> rows, query |-> query, engineBefore |-> before,
   attemptsBefore |-> attempts, ret |-> ret, raised |-> raised,
   printed |-> printed, libOk |-> libOk]

NoQuery == [malformed |-> FALSE, table |-> ""]

\* the caller calls create_connection()
CreateConnection ==
  /\ calls < MaxCalls
  /\ \E fail \in ConnFails :
       LET c == create_connection(engine, attempts, fail) IN
       /\ engine' = c.engine
       /\ last' = Called("create_connection", 0, NoQuery, engine, c.ret, FALSE,
                         c.printed, fail = "none")
  /\ attempts' = attempts + 1
  /\ calls' = calls + 1
  /\ UNCHANGED <<tables>>
  /\ UNCHANGED fsvars

\* load_dataframe_to_db(df, table_name, if_exists), lines 43-53
LoadDataframeToDb ==
  /\ calls < MaxCalls
  /\ \E n \in 0..MaxRows, name \in TableNames, mode \in IfExists,
        fail \in ConnFails, fault \in BOOLEAN :
       LET c == Lazy(engine, attempts, fail)
           ok == ToSqlOk(c.engine, tables, name, mode, fault)
       IN  /\ engine' = c.engine
           /\ attempts' = attempts + c.made
           /\ tables' = IF ok THEN ToSql(tables, name, n, mode) ELSE tables
           /\ last' = Called("load_dataframe_to_db", n, NoQuery, engine, RetNone, FALSE,
                             c.printed \o (IF ok THEN LoadPrinted(n)
                                           ELSE <<Msg("Error loading data:")>>),
                             ok)
  /\ calls' = calls + 1
  /\ UNCHANGED fsvars

\* execute_query(query), lines 55-65
ExecuteQuery ==
  /\ calls < MaxCalls
  /\ \E query \in Queries, fail \in ConnFails, fault \in BOOLEAN :
       LET c == Lazy(engine, attempts, fail)
           ok == ReadSqlOk(c.engine, tables, query, fault)
       IN  /\ engine' = c.engine
           /\ attempts' = attempts + c.made
           /\ last' = Called("execute_query", 0, query, engine,
                             IF ok THEN RetFrame(tables[query.table])
                             ELSE QueryErrorReturn,
                             FALSE,
                             c.printed \o (IF ok THEN <<>>
                                           ELSE <<Msg("Error executing query:")>>),
                             ok)
  /\ calls' = calls + 1
  /\ UNCHANGED <<tables>>
  /\ UNCHANGED fsvars

\* close_connection(), lines 67-71: dispose() is called outside any try
CloseConnection ==
  /\ calls < MaxCalls
  /\ \E fault \in BOOLEAN :
       IF EngineIsTrue(engine)
         THEN /\ engine' = IF fault THEN engine ELSE [engine EXCEPT !.disposed = TRUE]
              /\ last' = Called("close_connection", 0, NoQuery, engine, RetNone, fault,
                                IF fault THEN <<>>
                                ELSE <<Msg("Database connection closed")>>,
                                ~fault)
         ELSE /\ engine' = engine
              /\ last' = Called("close_connection", 0, NoQuery, engine, RetNone, FALSE,
                                <<>>, TRUE)
  /\ calls' = calls + 1
  /\ UNCHANGED <<tables, attempts>>
  /\ UNCHANGED fsvars

InitDB ==
  /\ engine = NoEngine
  /\ tables = <<>>
  /\ attempts = 0
  /\ calls = 0
  /\ last = [method |-> "none", rows |-> 0, query |-> NoQuery,
             engineBefore |-> NoEngine, attemptsBefore |-> 0, ret |-> RetNone,
             raised |-> FALSE, printed |-> <<>>, libOk |-> TRUE]

NextDB ==
  \/ CreateConnection
  \/ LoadDataframeToDb
  \/ ExecuteQuery
  \/ CloseConnection

Init == InitFS /\ InitDB

Spec == Init /\ [][NextFS]_vars

SpecDB == Init /\ [][NextDB]_vars

(***************************************************************************)
(* The properties of main().                                               *)
(***************************************************************************)
DescriptorDirs ==
  {ROOT \o structure[k].path : k \in {n \in 1..Len(structure) : structure[n].isdict}}

DescriptorFiles == UNION {FilesOf(k) : k \in 1..Len(structure)}

\* the content a descriptor entry fixes for its file
FixedContent(c) == IF c = Str("notebook") THEN nb_skeleton_json ELSE c.data

RunEndedWell == pc = "exited" /\ exit = 0

Creates == {"touch", "open", "write"}

\* C1: a run that starts with no ROOT and meets no filesystem error ends with
\* every directory and every file of the descriptor in place, and no file is
\* created or written at a moment its parent directory does not exist.
C1_AllPathsExist ==
  startEmpty =>
    /\ \A k \in 1..Len(log) : log[k].op \in Creates => log[k].parentOk
    /\ RunEndedWell =>
         /\ DescriptorDirs \subseteq dirs
         /\ \A f \in DescriptorFiles : f.path \in DOMAIN files

C1_Witness ==
  /\ startEmpty
  /\ RunEndedWell
  /\ \E k \in 1..Len(log) : log[k].op = "touch" /\ log[k].path = raw_csv

GuardedNonEmptyAtStart ==
  /\ runs > 0
  /\ pc # "idle"
  /\ \A g \in {raw_csv, processed_csv} : g \in DOMAIN startFiles /\ startFiles[g] # ""

\* C2: when the two guarded data files are non-empty as a run starts, they
\* hold the content they had at the start, all through the run and after it.
C2_GuardedFilesKept ==
  GuardedNonEmptyAtStart =>
    \A g \in {raw_csv, processed_csv} : g \in DOMAIN files /\ files[g] = startFiles[g]

C2_Witness ==
  /\ GuardedNonEmptyAtStart
  /\ RunEndedWell
  /\ startFiles[raw_csv] = "user data\n"
  /\ \E k \in 1..Len(log) : log[k].op = "stat" /\ log[k].path = raw_csv

\* C3: a run that ends without error leaves every notebook, text and binary
\* file of the descriptor with the content its entry fixes, whatever the file
\* held before.
C3_FixedContentWritten ==
  RunEndedWell =>
    \A f \in DescriptorFiles :
      f.content # None => f.path \in DOMAIN files /\ files[f.path] = FixedContent(f.content)

C3_Witness ==
  /\ RunEndedWell
  /\ \E f \in DescriptorFiles :
       /\ f.content.type = "str"
       /\ f.content # Str("notebook")
       /\ f.path \in DOMAIN startFiles
       /\ startFiles[f.path] = "user data\n"

HeaderStepDone == pc \in {"processed_csv", "init_py", "finish"} \/ RunEndedWell

\* C4: in a run from no ROOT, the raw data file exists from the moment its
\* None entry is processed and is empty up to the header step; after the
\* header step it is exactly the header line and its newline.
C4_RawCsvHeader ==
  startEmpty =>
    /\ ((pc = "loop" /\ i >= 2) \/ pc = "raw_csv") =>
         raw_csv \in DOMAIN files /\ files[raw_csv] = ""
    /\ pc = "loop" /\ raw_csv \in DOMAIN files => files[raw_csv] = ""
    /\ HeaderStepDone =>
         /\ raw_csv \in DOMAIN files
         /\ files[raw_csv] =
              "customer_id,visit_date,product_id,category,quantity,price,total_spent\n"

C4_Witness ==
  /\ startEmpty
  /\ pc = "processed_csv"
  /\ \E k \in 1..Len(log) : log[k].op = "write" /\ log[k].path = raw_csv

Raised(k) == log[k].raised

\* C5: a filesystem call that raises is the last call of its run: the run
\* prints the error message and exits with status 1; a run exits with status
\* 0 exactly when none of its calls raised.
C5_ErrorAborts ==
  /\ \A k \in 1..Len(log) : Raised(k) =>
       /\ k = Len(log)
       /\ pc \in {"exited", "idle"}
       /\ exit = 1
       /\ out[Len(out)] = "Error while creating project:"
  /\ pc = "exited" =>
       /\ exit \in {0, 1}
       /\ exit = 0 <=> \A k \in 1..Len(log) : ~Raised(k)

C5_Witness ==
  /\ pc = "exited"
  /\ exit = 1
  /\ Raised(Len(log))
  /\ i < Len(structure)
  /\ README \notin DOMAIN files

Declared == SelectSeq(log, LAMBDA c : c.entry # 0)

InOrder(q) == \A k \in 1..(Len(q) - 1) : q[k].entry <= q[k + 1].entry

\* C9, as claimed: no call on the path of an earlier-declared entry comes
\* after a call on the path of a later-declared entry.
C9_DeclarationOrder == InOrder(Declared)

PostLoopPaths ==
  {raw_csv, Parent(raw_csv), processed_csv, Parent(processed_csv), init_py,
   Parent(init_py)}

\* C9, amended: the calls of the loop over the descriptor come in
\* declaration order; the calls of the steps after the loop follow them all,
\* and reach back to the two data files and to src/__init__.py only.
C9_LoopInDeclarationOrder ==
  /\ InOrder(SelectSeq(log, LAMBDA c : c.entry # 0 /\ c.phase = "loop"))
  /\ \A k \in 1..(Len(log) - 1) : log[k].phase # "loop" => log[k + 1].phase # "loop"
  /\ \A k \in 1..Len(log) : log[k].phase # "loop" => log[k].path \in PostLoopPaths

C9_Witness ==
  /\ RunEndedWell
  /\ \E k \in 1..Len(log) : log[k].phase = "loop" /\ log[k].entry = Len(structure)
  /\ \E k \in 1..Len(log) : log[k].phase = "raw_csv" /\ log[k].entry = 1

(***************************************************************************)
(* The properties of DatabaseConnection, on the last call made.            *)
(***************************************************************************)
LastPrinted == IF last.printed = <<>> THEN Msg("") ELSE last.printed[Len(last.printed)]

\* the two lines a load that worked prints, with the row count n
ReportsLoaded(n) ==
  /\ Len(last.printed) >= 2
  /\ last.printed[Len(last.printed) - 1] = [text |-> "Data loaded to table successfully!", n |-> 0]
  /\ LastPrinted = [text |-> "Rows loaded:", n |-> n]

\* C6, as claimed: no call of a method ends in an exception; a connection
\* that failed and a load that failed return None.
C6_NoExceptionPropagates ==
  /\ ~last.raised
  /\ last.method \in {"create_connection", "load_dataframe_to_db"} /\ ~last.libOk =>
       last.ret = [type |-> "None", rows |-> 0, id |-> 0]

\* C7, as claimed: a load of a DataFrame of zero rows reports success with a
\* row count of 0 and does not raise, in any state of the helper.
C7_EmptyLoadReportsSuccess ==
  last.method = "load_dataframe_to_db" /\ last.rows = 0 =>
    ~last.raised /\ ReportsLoaded(0)

\* C7, amended: a load of zero rows never raises and returns None; it
\* reports success with a row count of 0 when to_sql worked, and the load
\* error when to_sql raised.
C7_EmptyLoadReportsOutcome ==
  last.method = "load_dataframe_to_db" /\ last.rows = 0 =>
    /\ ~last.raised
    /\ last.ret = [type |-> "None", rows |-> 0, id |-> 0]
    /\ last.libOk => ReportsLoaded(0)
    /\ ~last.libOk => LastPrinted = [text |-> "Error loading data:", n |-> 0]

C7_Witness ==
  /\ last.method = "load_dataframe_to_db"
  /\ last.rows = 0
  /\ last.libOk
  /\ last.engineBefore.disposed
  /\ "customers" \in DOMAIN tables
  /\ tables["customers"] = 0

\* C8: a query that is malformed, or whose read fails for any reason (the
\* engine still None after the connection on demand failed included), gives
\* an empty DataFrame back, not None, and no exception.
C8_FailedQueryReturnsEmptyFrame ==
  last.method = "execute_query" /\ (last.query.malformed \/ ~last.libOk \/ engine = NoEngine) =>
    /\ ~last.raised
    /\ last.ret = [type |-> "DataFrame", rows |-> 0, id |-> 0]
    /\ LastPrinted = [text |-> "Error executing query:", n |-> 0]

C8_Witness ==
  /\ last.method = "execute_query"
  /\ last.query.malformed
  /\ engine # NoEngine
  /\ "customers" \in DOMAIN tables
  /\ tables["customers"] > 0

Made == attempts - last.attemptsBefore

\* C10: load and query call create_connection exactly when the engine is
\* None as they are entered; close leaves the engine in place; so with an
\* engine in place, load, query and close make no connection attempt and
\* keep working on that engine, disposed or not.
C10_ConnectsOnlyWhenNone ==
  /\ last.method \in {"load_dataframe_to_db", "execute_query"} =>
       Made = (IF last.engineBefore = NoEngine THEN 1 ELSE 0)
  /\ last.method = "close_connection" =>
       Made = 0 /\ engine.id = last.engineBefore.id
  /\ last.method \in {"load_dataframe_to_db", "execute_query", "close_connection"}
       /\ last.engineBefore # NoEngine =>
         Made = 0 /\ engine.id = last.engineBefore.id

C10_Witness ==
  /\ last.method = "execute_query"
  /\ last.engineBefore.disposed
  /\ last.libOk
  /\ engine = last.engineBefore
====
